---- MODULE Spec2Model ----
(***************************************************************************)
(* A model of the jwt crate (src/src/lib.rs, src/src/error.rs): loading a  *)
(* private key (RSAKey::from_pem / from_str / from_pkey), building a       *)
(* Jwt<T> (Jwt::new) and producing the signed compact token                *)
(* (Jwt::finalize -> input -> encode_header / encode, sign).               *)
(*                                                                         *)
(* Text is a sequence of byte values (ASCII codes).  The calls into        *)
(* serde_json, rustc_serialize, std::fs and openssl are modelled by what   *)
(* they do at the call sites of lib.rs.  Every Rust function that returns  *)
(* Result<_, JwtErr> is an operator that returns a record                  *)
(*   [kind, val, err, trace, fed]                                          *)
(* kind  : "Ok", "Err" or "Panic" (the thread unwinds),                    *)
(* val   : the Ok value,            err : the JwtErr of an Err,            *)
(* trace : the calls made, in the order in which they are entered,         *)
(* fed   : the bytes handed to Signer::update (sign and finalize only).    *)
(***************************************************************************)
EXTENDS Integers, Sequences, FiniteSets, TLC

VARIABLES
  jwts,    \* jwts[i]: the Jwt<T> instance i (body, pkey, algo), or NoJwt
  given,   \* given[i]: the Option<Algorithm> that Jwt::new was called with
  last,    \* last[i]: what the latest finalize call on instance i returned
  alive,   \* FALSE once a call has panicked
  fs,      \* fs[p]: the file at path p
  loaded   \* the latest key-loading call: its arguments and what it returned

vars == <<jwts, given, last, alive, fs, loaded>>

\* Longest String held by a TestBody payload.
MaxStrLen == 2
\* Number of distinct RSA private keys.
NumKeys == 2

Instances == {1, 2}

Range(s) == {s[k] : k \in 1..Len(s)}

(***************************************************************************)
(* error.rs                                                                *)
(***************************************************************************)
NoErr == [variant |-> "", cause |-> ""]

\* impl_from!(json_error, Json); impl_from!(openssl_error, OpenSSL);
\* impl_from!(io_error, Io): what `?` applies to a library error.
From(e) ==
  CASE e.type = "json_error"    -> [variant |-> "Json", cause |-> e.cause]
    [] e.type = "openssl_error" -> [variant |-> "OpenSSL", cause |-> e.cause]
    [] e.type = "io_error"      -> [variant |-> "Io", cause |-> e.cause]

\* The variants of enum JwtErr.
JwtErrVariants == {"Json", "OpenSSL", "Io", "Unknown"}

Ok(v, t)  == [kind |-> "Ok", val |-> v, err |-> NoErr, trace |-> t, fed |-> <<>>]
Err(e, t) == [kind |-> "Err", val |-> <<>>, err |-> e, trace |-> t, fed |-> <<>>]
Unwind(t) == [kind |-> "Panic", val |-> <<>>, err |-> NoErr, trace |-> t, fed |-> <<>>]

\* `callee()?` (or a panic unwinding through the caller): the failure of the
\* callee leaves the caller, after the calls `before` that the caller made.
Raise(r, before) ==
  [kind |-> r.kind, val |-> <<>>, err |-> r.err, trace |-> before \o r.trace,
   fed |-> <<>>]

\* A library call's result.
LibOk(v)       == [ok |-> TRUE, val |-> v, e |-> [type |-> "", cause |-> ""]]
LibErr(ty, c)  == [ok |-> FALSE, val |-> <<>>, e |-> [type |-> ty, cause |-> c]]

(***************************************************************************)
(* Algorithm                                                               *)
(***************************************************************************)
Algorithms == {"HS256", "RS256"}

\* Algorithm::signer: the digest of the algorithm; HS256 is unimplemented!().
signer(algo) ==
  IF algo = "HS256"
    THEN Unwind(<<"signer", "unimplemented">>)
    ELSE Ok("sha256", <<"signer">>)

\* impl Display for Algorithm.
AlgorithmDisplay(algo) ==
  IF algo = "HS256" THEN <<72, 83, 50, 53, 54>>    \* "HS256"
                    ELSE <<82, 83, 50, 53, 54>>    \* "RS256"

(***************************************************************************)
(* serde_json::to_string                                                   *)
(***************************************************************************)
\* A JSON string's content: '"' and '\' are escaped (the payload alphabet
\* holds no control character).
RECURSIVE JsonEscape(_)
JsonEscape(s) ==
  IF s = <<>> THEN <<>>
  ELSE (IF Head(s) = 34 THEN <<92, 34>>
        ELSE IF Head(s) = 92 THEN <<92, 92>>
        ELSE <<Head(s)>>) \o JsonEscape(Tail(s))

JsonString(s) == <<34>> \o JsonEscape(s) \o <<34>>

\* The members of a JSON object, in the order the serializer visits them.
RECURSIVE JsonMembers(_)
JsonMembers(fields) ==
  IF fields = <<>> THEN <<>>
  ELSE JsonString(fields[1][1]) \o <<58>> \o JsonString(fields[1][2])
       \o (IF Len(fields) > 1 THEN <<44>> ELSE <<>>)
       \o JsonMembers(Tail(fields))

JsonObject(fields) == <<123>> \o JsonMembers(fields) \o <<125>>

\* serde_json::to_string(&JwtHeader): the derived Serialize writes the fields
\* in declaration order, alg then typ.
to_string_header(h) ==
  LibOk(JsonObject(<< << <<97, 108, 103>>, h.alg >>,
                      << <<116, 121, 112>>, h.typ >> >>))

\* serde_json::to_string(&T) of the payload.  A struct is written in field
\* order, a HashMap in this instance's iteration order; a map whose keys are
\* not strings cannot be written as JSON.
to_string(body) ==
  IF body.type = "badmap"
    THEN LibErr("json_error", "key must be a string")
    ELSE LibOk(JsonObject(body.fields))

(***************************************************************************)
(* rustc_serialize::base64::ToBase64 with URL_SAFE                         *)
(* (UrlSafe character set, no padding, no line breaks)                     *)
(***************************************************************************)
B64Char(v) ==
  IF v < 26 THEN 65 + v                  \* A-Z
  ELSE IF v < 52 THEN 97 + (v - 26)      \* a-z
  ELSE IF v < 62 THEN 48 + (v - 52)      \* 0-9
  ELSE IF v = 62 THEN 45                 \* -
  ELSE 95                                \* _

\* A faulty variant of to_base64: the third byte of every group is left out.
RECURSIVE to_base64_drop3(_)
to_base64_drop3(bytes) ==
  LET n == Len(bytes) IN
  IF n = 0 THEN <<>>
  ELSE IF n = 1 THEN
    LET w == bytes[1] * 65536 IN
    <<B64Char(w \div 262144), B64Char((w \div 4096) % 64)>>
  ELSE IF n = 2 THEN
    LET w == bytes[1] * 65536 + bytes[2] * 256 IN
    <<B64Char(w \div 262144), B64Char((w \div 4096) % 64),
      B64Char((w \div 64) % 64)>>
  ELSE
    LET w == bytes[1] * 65536 + bytes[2] * 256 IN
    <<B64Char(w \div 262144), B64Char((w \div 4096) % 64),
      B64Char((w \div 64) % 64), B64Char(w % 64)>>
    \o to_base64_drop3(SubSeq(bytes, 4, n))

RECURSIVE to_base64(_)
to_base64(bytes) ==
  LET n == Len(bytes) IN
  IF n = 0 THEN <<>>
  ELSE IF n = 1 THEN
    LET w == bytes[1] * 65536 IN
    <<B64Char(w \div 262144), B64Char((w \div 4096) % 64)>>
  ELSE IF n = 2 THEN
    LET w == bytes[1] * 65536 + bytes[2] * 256 IN
    <<B64Char(w \div 262144), B64Char((w \div 4096) % 64),
      B64Char((w \div 64) % 64)>>
  ELSE
    LET w == bytes[1] * 65536 + bytes[2] * 256 + bytes[3] IN
    <<B64Char(w \div 262144), B64Char((w \div 4096) % 64),
      B64Char((w \div 64) % 64), B64Char(w % 64)>>
    \o to_base64(SubSeq(bytes, 4, n))

(***************************************************************************)
(* openssl::sign::Signer over an RSA private key                           *)
(***************************************************************************)
\* A private key: which key it is, and the openssl call that fails with it
\* ("none" for a sound key).
PKeys ==
  {[id |-> k, fault |-> "none"] : k \in 1..NumKeys}
  \cup {[id |-> 1, fault |-> f] : f \in {"new", "update", "finish"}}

NoPKey == [id |-> 0, fault |-> "none"]

\* Signer::new(digest, pkey).
SignerNew(md, pkey) ==
  IF pkey.fault = "new" THEN LibErr("openssl_error", "Signer::new")
                        ELSE LibOk(md)

\* Signer::update(bytes).
SignerUpdate(pkey, bytes) ==
  IF pkey.fault = "update" THEN LibErr("openssl_error", "update")
                           ELSE LibOk(bytes)

\* The RSA PKCS#1 v1.5 signature over the SHA-256 digest of msg, stood in for
\* by a two-byte checksum keyed by the key: like the signature, a function of
\* the key and of the message, and never empty.
RECURSIVE Checksum(_, _, _)
Checksum(seed, msg, n) ==
  IF n = 0 THEN seed
  ELSE (Checksum(seed, msg, n - 1) * 33 + msg[n]) % 65536

\* Signer::finish(): the signature over the bytes fed by update.
SignerFinish(pkey, msg) ==
  IF pkey.fault = "finish" THEN LibErr("openssl_error", "finish")
  ELSE LET h == Checksum(5381 + pkey.id, msg, Len(msg)) IN LibOk(<<h \div 256, h % 256>>)

(***************************************************************************)
(* RSAKey                                                                  *)
(***************************************************************************)
\* RSAKey::from_pkey.
from_pkey(pkey) == Ok([key |-> pkey], <<"from_pkey">>)

\* RSAKey::produce_key.
produce_key(self) == self.key

(***************************************************************************)
(* Jwt<T>                                                                  *)
(***************************************************************************)
Dot == <<46>>

\* A faulty variant of header: alg is always "RS256".
header_fixed_alg(self) ==
  Ok([alg |-> <<82, 83, 50, 53, 54>>, typ |-> <<74, 87, 84>>], <<"header">>)

\* Jwt::header.
header(self) ==
  Ok([alg |-> AlgorithmDisplay(self.algo), typ |-> <<74, 87, 84>>],   \* "JWT"
     <<"header">>)

\* Jwt::encode_header.
encode_header(self) ==
  LET h == header(self) IN
  IF h.kind # "Ok" THEN Raise(h, <<"encode_header">>)
  ELSE LET s == to_string_header(h.val)
           t == <<"encode_header">> \o h.trace IN
       IF ~s.ok THEN Err(From(s.e), t) ELSE Ok(to_base64(s.val), t)

\* Jwt::encode.
encode(param) ==
  LET s == to_string(param) IN
  IF ~s.ok THEN Err(From(s.e), <<"encode">>)
  ELSE Ok(to_base64(s.val), <<"encode">>)

\* A faulty variant of input: the separator is left out.
input_no_dot(self) ==
  LET h == encode_header(self) IN
  IF h.kind # "Ok" THEN Raise(h, <<"input">>)
  ELSE LET b == encode(self.body) IN
       IF b.kind # "Ok" THEN Raise(b, <<"input">> \o h.trace)
       ELSE Ok(h.val \o b.val, <<"input">> \o h.trace \o b.trace)

\* Jwt::input.
input(self) ==
  LET h == encode_header(self) IN
  IF h.kind # "Ok" THEN Raise(h, <<"input">>)
  ELSE LET b == encode(self.body) IN
       IF b.kind # "Ok" THEN Raise(b, <<"input">> \o h.trace)
       ELSE Ok(h.val \o Dot \o b.val, <<"input">> \o h.trace \o b.trace)

\* A faulty variant of sign: only the payload segment is fed to the signer.
sign_payload_only(self) ==
  LET pkey == produce_key(self.pkey)
      md   == signer(self.algo) IN
  IF md.kind # "Ok" THEN Raise(md, <<"sign">>)
  ELSE LET s == SignerNew(md.val, pkey)
           t1 == <<"sign">> \o md.trace \o <<"Signer::new">> IN
    IF ~s.ok THEN Err(From(s.e), t1)
    ELSE LET i == encode(self.body) IN
      IF i.kind # "Ok" THEN Raise(i, t1)
      ELSE LET u == SignerUpdate(pkey, i.val)
               t2 == t1 \o i.trace \o <<"update">> IN
        IF ~u.ok THEN Err(From(u.e), t2)
        ELSE LET f == SignerFinish(pkey, u.val)
                 t3 == t2 \o <<"finish">> IN
          IF ~f.ok THEN Err(From(f.e), t3)
          ELSE [Ok(to_base64(f.val), t3) EXCEPT !.fed = u.val]

\* Jwt::sign.
sign(self) ==
  LET pkey == produce_key(self.pkey)
      md   == signer(self.algo) IN
  IF md.kind # "Ok" THEN Raise(md, <<"sign">>)
  ELSE LET s == SignerNew(md.val, pkey)
           t1 == <<"sign">> \o md.trace \o <<"Signer::new">> IN
    IF ~s.ok THEN Err(From(s.e), t1)
    ELSE LET i == input(self) IN
      IF i.kind # "Ok" THEN Raise(i, t1)
      ELSE LET u == SignerUpdate(pkey, i.val)
               t2 == t1 \o i.trace \o <<"update">> IN
        IF ~u.ok THEN Err(From(u.e), t2)
        ELSE LET f == SignerFinish(pkey, u.val)
                 t3 == t2 \o <<"finish">> IN
          IF ~f.ok THEN Err(From(f.e), t3)
          ELSE [Ok(to_base64(f.val), t3) EXCEPT !.fed = u.val]

\* A faulty variant of finalize: sign() is evaluated before input().
finalize_sign_first(self) ==
  LET s == sign(self) IN
  IF s.kind # "Ok" THEN Raise(s, <<"finalize">>)
  ELSE LET i == input(self) IN
       IF i.kind # "Ok" THEN Raise(i, <<"finalize">> \o s.trace)
       ELSE [Ok(i.val \o Dot \o s.val, <<"finalize">> \o s.trace \o i.trace)
               EXCEPT !.fed = s.fed]

\* Jwt::finalize.
finalize(self) ==
  LET i == input(self) IN
  IF i.kind # "Ok" THEN Raise(i, <<"finalize">>)
  ELSE LET s == sign(self) IN
       IF s.kind # "Ok" THEN Raise(s, <<"finalize">> \o i.trace)
       ELSE [Ok(i.val \o Dot \o s.val, <<"finalize">> \o i.trace \o s.trace)
               EXCEPT !.fed = s.fed]

\* Jwt::new.
new(body, jwt_key, algo) ==
  [body |-> body, pkey |-> jwt_key,
   algo |-> IF algo = "None" THEN "RS256" ELSE algo]

(***************************************************************************)
(* Key files: std::fs::File and PKey::private_key_from_pem                 *)
(***************************************************************************)
\* PEM text is a sequence of lines: 0 a line outside any block, 1 the BEGIN
\* line, 2 the END line, 3 a body that is not a key, 10 + k the body of key k.
PemTexts ==
  {<<>>, <<0>>, <<1, 11>>, <<1, 3, 2>>, <<1, 11, 2, 0>>}
  \cup {<<1, 10 + k, 2>> : k \in 1..NumKeys}

\* PKey::private_key_from_pem: the first block of the buffer, which must be
\* closed and hold a key; what follows the block is not read.
private_key_from_pem(buf) ==
  LET starts == {k \in 1..Len(buf) : buf[k] = 1} IN
  IF starts = {} THEN LibErr("openssl_error", "no start line")
  ELSE LET b == CHOOSE k \in starts : \A m \in starts : k <= m IN
    IF b + 2 > Len(buf) \/ buf[b + 2] # 2
      THEN LibErr("openssl_error", "bad end line")
    ELSE IF buf[b + 1] < 10
      THEN LibErr("openssl_error", "not a private key")
    ELSE LibOk([id |-> buf[b + 1] - 10, fault |-> "none"])

\* A file: whether open succeeds, its content, and how many lines a read
\* delivers before it fails (-1: the read does not fail).  A directory opens
\* and fails to read at once.
NoFile == [open |-> FALSE, content |-> <<>>, fail |-> -1]

Files ==
  {NoFile}
  \cup UNION {{[open |-> TRUE, content |-> c, fail |-> n] : n \in -1..Len(c)} :
               c \in PemTexts}

Paths == {"random_rsa_for_testing"}

\* File::open.
FileOpen(fsys, path) ==
  IF fsys[path].open THEN LibOk(fsys[path])
                     ELSE LibErr("io_error", "No such file or directory")

\* Read::read_to_end(&mut buffer): the bytes read are appended to the buffer,
\* also those read before an error.
ReadToEnd(f) ==
  IF f.fail = -1
    THEN [ok |-> TRUE, buf |-> f.content, e |-> [type |-> "", cause |-> ""]]
    ELSE [ok |-> FALSE, buf |-> SubSeq(f.content, 1, f.fail),
          e |-> [type |-> "io_error", cause |-> "read"]]

\* A faulty variant of read_keyfile: a failed open is discarded like a failed
\* read, and the empty buffer is parsed.
read_keyfile_swallow_open(fsys, keyfile) ==
  LET f == FileOpen(fsys, keyfile)
      r == IF f.ok THEN ReadToEnd(f.val) ELSE ReadToEnd(NoFile)
      t == <<"read_keyfile", "File::open", "read_to_end",
             "private_key_from_pem">>
      k == private_key_from_pem(r.buf) IN
  IF ~k.ok THEN Err(From(k.e), t) ELSE Ok(k.val, t)

\* RSAKey::read_keyfile.  `let _ = f.read_to_end(&mut buffer);` discards the
\* result of the read; the buffer is parsed as it stands.
read_keyfile(fsys, keyfile) ==
  LET f == FileOpen(fsys, keyfile) IN
  IF ~f.ok THEN Err(From(f.e), <<"read_keyfile", "File::open">>)
  ELSE LET r == ReadToEnd(f.val)
           t == <<"read_keyfile", "File::open", "read_to_end",
                  "private_key_from_pem">>
           k == private_key_from_pem(r.buf) IN
       IF ~k.ok THEN Err(From(k.e), t) ELSE Ok(k.val, t)

\* RSAKey::from_pem.
from_pem(fsys, filename) ==
  LET k == read_keyfile(fsys, filename) IN
  IF k.kind # "Ok" THEN Raise(k, <<"from_pem">>)
  ELSE Ok([key |-> k.val], <<"from_pem">> \o k.trace)

\* RSAKey::from_str.
from_str(pkey) ==
  LET k == private_key_from_pem(pkey) IN
  IF ~k.ok THEN Err(From(k.e), <<"from_str", "private_key_from_pem">>)
  ELSE Ok([key |-> k.val], <<"from_str", "private_key_from_pem">>)

(***************************************************************************)
(* The payloads T: Serialize                                               *)
(***************************************************************************)
Alphabet == {109, 101}    \* m e

\* The strings over the alphabet, and one that needs escaping: "\"".
Strings == UNION {[1..n -> Alphabet] : n \in 0..MaxStrLen} \cup {<<34>>}

\* struct TestBody { serialize: String } of test_sign.
TestBody(s) ==
  [type |-> "struct",
   fields |-> << << <<115, 101, 114, 105, 97, 108, 105, 122, 101>>, s >> >>]

\* A HashMap<String, String> {"a": "m", "b": "e"}: each instance has its own
\* iteration order (std's RandomState).
MapEntries == { << <<97>>, <<109>> >>, << <<98>>, <<101>> >> }

MapBodies ==
  {[type |-> "map", fields |-> o] :
     o \in {<<x, y>> : x \in MapEntries, y \in MapEntries} \
            {<<x, x>> : x \in MapEntries}}

\* A map whose keys are not strings.
BadBody == [type |-> "badmap", fields |-> <<>>]

Bodies == {TestBody(s) : s \in Strings} \cup MapBodies \cup {BadBody}

\* The payloads are equal (PartialEq): a map's order is not part of its value.
SameValue(a, b) ==
  /\ a.type = b.type
  /\ IF a.type = "map" THEN Range(a.fields) = Range(b.fields)
                       ELSE a.fields = b.fields

(***************************************************************************)
(* State                                                                   *)
(***************************************************************************)
NoJwt == [body |-> [type |-> "none", fields |-> <<>>],
          pkey |-> [key |-> NoPKey], algo |-> "none"]

NoResult == [kind |-> "None", val |-> <<>>, err |-> NoErr, trace |-> <<>>,
             fed |-> <<>>]

NotLoaded == [op |-> "none", file |-> NoFile, text |-> <<>>, pkey |-> NoPKey,
              res |-> NoResult]

Init ==
  /\ jwts = [i \in Instances |-> NoJwt]
  /\ given = [i \in Instances |-> "none"]
  /\ last = [i \in Instances |-> NoResult]
  /\ alive = TRUE
  /\ fs = [p \in Paths |-> NoFile]
  /\ loaded = NotLoaded

(***************************************************************************)
(* Building and finalizing tokens                                          *)
(***************************************************************************)
\* The arguments Jwt::new is called with: every payload with every sound key,
\* and each faulty key with one serializable and one unserializable payload.
NewArgs ==
  LET algos == {"None"} \cup Algorithms IN
  (Bodies \X {k \in PKeys : k.fault = "none"} \X algos)
  \cup ({TestBody(<<109, 101>>), BadBody} \X {k \in PKeys : k.fault # "none"}
          \X algos)

\* The instances that Jwt::new builds.
Jwts == {new(a[1], from_pkey(a[2]).val, a[3]) : a \in NewArgs}

\* self.finalize() for each instance: finalize reads self and nothing else,
\* so its results are computed once per instance.
Finalized == [self \in Jwts |-> finalize(self)]

\* Jwt::new(body, RSAKey::from_pkey(pkey)?, algo).
CallNew(i, body, pkey, algo) ==
  /\ alive
  /\ jwts[i] = NoJwt
  /\ LET k == from_pkey(pkey) IN
       jwts' = [jwts EXCEPT ![i] = new(body, k.val, algo)]
  /\ given' = [given EXCEPT ![i] = algo]
  /\ UNCHANGED <<last, alive, fs, loaded>>

\* A faulty variant of CallFinalize: the payload is moved out of the instance.
CallFinalize_takes_body(i) ==
  /\ alive
  /\ jwts[i] # NoJwt
  /\ LET r == Finalized[jwts[i]] IN
       /\ last' = [last EXCEPT ![i] = r]
       /\ alive' = (r.kind # "Panic")
  /\ jwts' = [jwts EXCEPT ![i].body = TestBody(<<>>)]
  /\ UNCHANGED <<given, fs, loaded>>

\* jwt.finalize(): finalize takes &self.  A panic ends the thread.
CallFinalize(i) ==
  /\ alive
  /\ jwts[i] # NoJwt
  /\ LET r == Finalized[jwts[i]] IN
       /\ last' = [last EXCEPT ![i] = r]
       /\ alive' = (r.kind # "Panic")
  /\ UNCHANGED <<jwts, given, fs, loaded>>

\* The instance goes out of scope.
Drop(i) ==
  /\ alive
  /\ jwts[i] # NoJwt
  /\ jwts' = [jwts EXCEPT ![i] = NoJwt]
  /\ given' = [given EXCEPT ![i] = "none"]
  /\ last' = [last EXCEPT ![i] = NoResult]
  /\ UNCHANGED <<alive, fs, loaded>>

Next ==
  \/ \E i \in Instances, a \in NewArgs : CallNew(i, a[1], a[2], a[3])
  \/ \E i \in Instances : CallFinalize(i)
  \/ \E i \in Instances : Drop(i)

Spec == Init /\ [][Next]_vars

(***************************************************************************)
(* Loading keys                                                            *)
(***************************************************************************)
\* The environment creates, replaces or removes the key file.
SetFile(p, f) ==
  /\ fs[p] # f
  /\ fs' = [fs EXCEPT ![p] = f]
  /\ UNCHANGED <<jwts, given, last, alive, loaded>>

\* RSAKey::from_pem(p).
CallFromPem(p) ==
  /\ loaded' = [op |-> "from_pem", file |-> fs[p], text |-> <<>>,
                pkey |-> NoPKey, res |-> from_pem(fs, p)]
  /\ UNCHANGED <<jwts, given, last, alive, fs>>

\* RSAKey::from_str(text).
CallFromStr(text) ==
  /\ loaded' = [op |-> "from_str", file |-> NoFile, text |-> text,
                pkey |-> NoPKey, res |-> from_str(text)]
  /\ UNCHANGED <<jwts, given, last, alive, fs>>

\* RSAKey::from_pkey(pkey).
CallFromPkey(pkey) ==
  /\ loaded' = [op |-> "from_pkey", file |-> NoFile, text |-> <<>>,
                pkey |-> pkey, res |-> from_pkey(pkey)]
  /\ UNCHANGED <<jwts, given, last, alive, fs>>

KeyNext ==
  \/ \E p \in Paths, f \in Files : SetFile(p, f)
  \/ \E p \in Paths : CallFromPem(p)
  \/ \E text \in PemTexts : CallFromStr(text)
  \/ \E pkey \in PKeys : CallFromPkey(pkey)

KeySpec == Init /\ [][KeyNext]_vars

(***************************************************************************)
(* Properties                                                              *)
(***************************************************************************)
\* The segments of s between the '.' characters, as str::split('.') gives.
SplitOnDot(s) ==
  LET D == {k \in 1..Len(s) : s[k] = 46}
      n == Cardinality(D)
      pos(k) == IF k = 0 THEN 0
                ELSE IF k = n + 1 THEN Len(s) + 1
                ELSE CHOOSE d \in D : Cardinality({e \in D : e <= d}) = k
  IN [k \in 1..(n + 1) |-> SubSeq(s, pos(k - 1) + 1, pos(k) - 1)]

\* A-Z a-z 0-9 - _
Base64UrlAlphabet == (65..90) \cup (97..122) \cup (48..57) \cup {45, 95}

\* base64url, unpadded, of {"alg":"RS256","typ":"JWT"}: the first segment of
\* the token that test_sign expects.
HeaderRS256 ==
  <<101, 121, 74, 104, 98, 71, 99, 105, 79, 105, 74, 83, 85, 122, 73, 49, 78,
    105, 73, 115, 73, 110, 82, 53, 99, 67, 73, 54, 73, 107, 112, 88, 86, 67,
    74, 57>>

\* base64url, unpadded, of {"alg":"HS256","typ":"JWT"}.
HeaderHS256 ==
  <<101, 121, 74, 104, 98, 71, 99, 105, 79, 105, 74, 73, 85, 122, 73, 49, 78,
    105, 73, 115, 73, 110, 82, 53, 99, 67, 73, 54, 73, 107, 112, 88, 86, 67,
    74, 57>>

\* base64url, unpadded, of {"serialize":"me"}: the second segment of the
\* token that test_sign expects.
PayloadMe ==
  <<101, 121, 74, 122, 90, 88, 74, 112, 89, 87, 120, 112, 101, 109, 85, 105,
    79, 105, 74, 116, 90, 83, 74, 57>>

Built(i) == jwts[i] # NoJwt
Returned(i) == Built(i) /\ last[i].kind \in {"Ok", "Err"}
Succeeded(i) == Built(i) /\ last[i].kind = "Ok"
Called(i) == Built(i) /\ last[i].kind # "None"

\* C1: the token of a successful finalize is header_b64 "." payload_b64 "."
\* signature_b64, and the bytes fed to the signer inside sign are exactly the
\* header_b64 "." payload_b64 prefix of that token, the signature being the
\* signer's output over them.
C1_SignedIsEmitted ==
  \A i \in Instances : Succeeded(i) =>
    LET r == last[i]
        h == encode_header(jwts[i])
        b == encode(jwts[i].body)
        sig == SignerFinish(produce_key(jwts[i].pkey), r.fed) IN
    /\ h.kind = "Ok" /\ b.kind = "Ok" /\ sig.ok
    /\ r.fed = h.val \o Dot \o b.val
    /\ r.val = r.fed \o Dot \o to_base64(sig.val)
    /\ SubSeq(r.val, 1, Len(r.fed)) = r.fed

\* The payload and header of test_sign were signed as they are emitted.
C1_Witness ==
  \E i \in Instances :
    /\ Succeeded(i)
    /\ jwts[i].body = TestBody(<<109, 101>>)
    /\ last[i].fed = HeaderRS256 \o Dot \o PayloadMe
    /\ Len(last[i].val) > Len(last[i].fed) + 1

\* C2: finalize of a Jwt built with Some(HS256), a serializable payload and a
\* sound key returns Err(UnsupportedAlgorithm) and does not panic.
C2_UnsupportedAlgorithmIsAnError ==
  \A i \in Instances :
    ( /\ Called(i)
      /\ jwts[i].algo = "HS256"
      /\ to_string(jwts[i].body).ok
      /\ jwts[i].pkey.key.fault = "none" )
    => /\ last[i].kind = "Err"
       /\ last[i].err.variant = "UnsupportedAlgorithm"
       /\ alive

\* C3: finalize returns the complete three-segment token or the first error
\* in the order header encoding, payload encoding, signing; a failure is an
\* Err without a token.
C3_TokenOrFirstError ==
  \A i \in Instances : Called(i) =>
    LET r == last[i]
        h == encode_header(jwts[i])
        b == encode(jwts[i].body) IN
    IF h.kind # "Ok" THEN r.kind = "Err" /\ r.err = h.err /\ r.val = <<>>
    ELSE IF b.kind # "Ok" THEN r.kind = "Err" /\ r.err = b.err /\ r.val = <<>>
    ELSE \/ r.kind = "Ok" /\ Len(SplitOnDot(r.val)) = 3
         \/ /\ r.kind = "Err" /\ r.val = <<>>
            /\ r.err.variant = "OpenSSL"
            /\ r.err.cause \in {"Signer::new", "update", "finish"}

\* C4: from_pem on a file that opens and then fails to be read returns
\* Err(Io): never a crypto error, never a key.
C4_ReadFailureIsIo ==
  ( /\ loaded.op = "from_pem"
    /\ loaded.file.open
    /\ loaded.file.fail # -1 )
  => loaded.res.kind = "Err" /\ loaded.res.err.variant = "Io"

\* Texts that hold no complete private-key block.
MalformedTexts == {<<>>, <<0>>, <<1, 11>>, <<1, 3, 2>>}

\* C5: from_pem on a path that cannot be opened returns Err(Io) without
\* parsing PEM; from_pem on a readable file with malformed PEM and from_str on
\* malformed PEM return Err(OpenSSL); none of them panics or yields an RSAKey.
C5_BadKey ==
  /\ (loaded.op = "from_pem" /\ ~loaded.file.open) =>
       /\ loaded.res.kind = "Err"
       /\ loaded.res.err.variant = "Io"
       /\ loaded.res.val = <<>>
       /\ "private_key_from_pem" \notin Range(loaded.res.trace)
  /\ ( /\ loaded.op = "from_pem" /\ loaded.file.open
       /\ loaded.file.fail = -1
       /\ loaded.file.content \in MalformedTexts ) =>
       /\ loaded.res.kind = "Err"
       /\ loaded.res.err.variant = "OpenSSL"
       /\ loaded.res.val = <<>>
  /\ (loaded.op = "from_str" /\ loaded.text \in MalformedTexts) =>
       /\ loaded.res.kind = "Err"
       /\ loaded.res.err.variant = "OpenSSL"
       /\ loaded.res.val = <<>>
  /\ loaded.res.kind # "Panic"

\* from_pem was called on a path that does not exist.
C5_Witness ==
  /\ loaded.op = "from_pem"
  /\ ~loaded.file.open
  /\ loaded.res.kind = "Err"

\* C6: the header finalize encodes is derived from the algorithm: alg is its
\* display name and typ is "JWT"; a Jwt built with algo = None uses RS256, and
\* the first segment of its token is base64url of
\* {"alg":"RS256","typ":"JWT"} whatever the payload and the key.
C6_Header ==
  \A i \in Instances : Built(i) =>
    /\ given[i] = "None" => jwts[i].algo = "RS256"
    /\ given[i] # "None" => jwts[i].algo = given[i]
    /\ encode_header(jwts[i]).kind = "Ok"
    /\ encode_header(jwts[i]).val =
         (IF jwts[i].algo = "RS256" THEN HeaderRS256 ELSE HeaderHS256)
    /\ Called(i) =>
         SubSeq(last[i].trace, 1, 4) =
           <<"finalize", "input", "encode_header", "header">>
    /\ (Succeeded(i) /\ given[i] = "None") =>
         SplitOnDot(last[i].val)[1] = HeaderRS256

\* A Jwt built with algo = None over a map payload has been finalized.
C6_Witness ==
  \E i \in Instances :
    /\ Succeeded(i)
    /\ given[i] = "None"
    /\ jwts[i].body \in MapBodies
    /\ SplitOnDot(last[i].val)[1] = HeaderRS256

C8_ThreeSegments ==
  \A i \in Instances : Succeeded(i) =>
    LET segs == SplitOnDot(last[i].val) IN
    /\ Len(segs) = 3
    /\ \A k \in 1..Len(segs) :
         /\ segs[k] # <<>>
         /\ Range(segs[k]) \subseteq Base64UrlAlphabet

\* A token over a map payload has been returned.
C8_Witness ==
  \E i \in Instances :
    /\ Succeeded(i)
    /\ jwts[i].body \in MapBodies
    /\ Len(SplitOnDot(last[i].val)) = 3

\* C9: two instances with the same key and algorithm whose payloads serialize
\* to different JSON texts have different payload segments and different
\* signing inputs, and equal header segments; each signature segment is the
\* signer's output over its signing input.
C9_PayloadSensitivity ==
  \A i, j \in Instances :
    ( /\ Succeeded(i) /\ Succeeded(j)
      /\ jwts[i].pkey = jwts[j].pkey
      /\ jwts[i].algo = jwts[j].algo
      /\ to_string(jwts[i].body).val # to_string(jwts[j].body).val )
    => LET si == SplitOnDot(last[i].val)
           sj == SplitOnDot(last[j].val) IN
       /\ Len(si) = 3 /\ Len(sj) = 3
       /\ si[2] # sj[2]
       /\ last[i].fed # last[j].fed
       /\ si[1] = sj[1]
       /\ si[3] = to_base64(SignerFinish(jwts[i].pkey.key, last[i].fed).val)
       /\ sj[3] = to_base64(SignerFinish(jwts[j].pkey.key, last[j].fed).val)

\* Two tokens under one key whose payloads differ in one byte.
C9_Witness ==
  /\ Succeeded(1) /\ Succeeded(2)
  /\ jwts[1].pkey = jwts[2].pkey
  /\ jwts[1].body = TestBody(<<109>>)
  /\ jwts[2].body = TestBody(<<101>>)
  /\ SplitOnDot(last[1].val)[2] # SplitOnDot(last[2].val)[2]

\* C10: finalize encodes header and payload before Algorithm::signer is
\* consulted: with HS256 and a payload that fails to serialize it returns
\* Err(Json) and never reaches the unimplemented branch; that branch is
\* reached only after both encodings succeeded, and before the Signer is
\* constructed and before the input() inside sign.
C10_EncodeBeforeSigner ==
  \A i \in Instances : Called(i) =>
    LET t == last[i].trace
        encoded == <<"finalize", "input", "encode_header", "header", "encode">>
    IN
    /\ \A k \in 1..Len(t) : t[k] = "signer" =>
         /\ SubSeq(t, 1, k - 1) = encoded \o <<"sign">>
         /\ encode_header(jwts[i]).kind = "Ok"
         /\ encode(jwts[i].body).kind = "Ok"
    /\ (jwts[i].algo = "HS256" /\ ~to_string(jwts[i].body).ok) =>
         /\ last[i].kind = "Err"
         /\ last[i].err.variant = "Json"
         /\ t = encoded
    /\ "unimplemented" \in Range(t) =>
         /\ jwts[i].algo = "HS256"
         /\ last[i].kind = "Panic"
         /\ t = encoded \o <<"sign", "signer", "unimplemented">>

\* HS256 with an unserializable payload has been finalized.
C10_Witness ==
  \E i \in Instances :
    /\ Called(i)
    /\ jwts[i].algo = "HS256"
    /\ jwts[i].body = BadBody
    /\ last[i].kind = "Err"

====
